---- MODULE Spec2Model ----
(***************************************************************************)
(* A model of ngx_http_no_newlines_module.c: the header filter that        *)
(* decides whether a response gets a context, and the body filter that     *)
(* strips CR and LF from the buffers of a response, in place, with a       *)
(* reader and a writer cursor.                                             *)
(*                                                                         *)
(* Memory is a sequence of bytes (ASCII codes) with 1-based addresses.  A  *)
(* buffer is a range [pos, last) of addresses.  The buffers of a response  *)
(* lie one after the other in memory; the bytes after the last buffer are  *)
(* memory the buffers do not own.  A read at an address after the end of   *)
(* the memory is a fault (pc = "fault"): the worker process is gone.       *)
(***************************************************************************)
EXTENDS Integers, Sequences, FiniteSets, TLC

VARIABLES
    \* ---- the request r, as far as the header filter reads or writes it
    status,                      \* r->headers_out.status
    header_only,                 \* r->header_only
    content_type,                \* r->headers_out.content_type (data, len)
    content_encoding,            \* r->headers_out.content_encoding
    content_length_n,            \* r->headers_out.content_length_n
    allow_ranges,                \* r->allow_ranges
    main_filter_need_in_memory,  \* r->main_filter_need_in_memory
    ctx_ptr,                     \* the module ctx of r: "NULL" or "ctx"
    ctx_state,                   \* ctx->state (-1 while there is no ctx)
    sizeof_ptr,                  \* the size of a pointer of the build
    \* ---- the header filter's invocation
    header_rc,                   \* "pending", "next" or "NGX_ERROR"
    pcalloc,                     \* "not_called", "ok" or "NULL"
    next_header_calls,           \* calls of ngx_http_next_header_filter
    \* ---- the body of the response
    mem,                         \* the memory the buffers lie in
    bufs,                        \* the buffers of the response, in order
    in_first, in_last,           \* the chain `in` is bufs[in_first..in_last]
    next_body_calls,             \* calls of ngx_http_next_body_filter made
                                 \* by the current (or last) invocation
    \* ---- the body filter's position and locals
    pc,
    chain_link,                  \* index into bufs, 0 for NULL
    reader, writer,              \* cursors of strip_buffer
    lreader, lwriter, i,         \* locals of handle_tags / ignore_pre...
    \* ---- history
    mem0, bufs0,                 \* memory and buffers as first received
    start_state,                 \* ctx->state when strip_buffer was entered
                                 \* for each buffer (-1: not yet)
    end_state,                   \* ctx->state when it returned (-1: not yet)
    strip_calls,                 \* calls of strip_buffer for each buffer
    tag_at,                      \* address of the "<" at which handle_tags
                                 \* last set state_tag_pre in the current
                                 \* buffer (0: it has not)
    \* ---- the filter chain of the process
    ngx_http_top_header_filter, ngx_http_top_body_filter,
    ngx_http_next_header_filter, ngx_http_next_body_filter,
    \* ---- a second response of the same worker process, whose buffer lies
    \* ---- in the same memory
    other_ctx_ptr, other_ctx_state,
    other_bufs,                  \* its buffers (none when there is no such
                                 \* response)
    other_bufs0,                 \* history: as first received
    other_done                   \* its body filter invocation has returned

hvars == <<status, header_only, content_type, content_encoding,
           content_length_n, allow_ranges, main_filter_need_in_memory,
           sizeof_ptr, pcalloc, next_header_calls, header_rc>>

bvars == <<mem, bufs, in_first, in_last, next_body_calls, pc, chain_link,
           reader, writer, lreader, lwriter, i, start_state, end_state>>

gvars == <<strip_calls, tag_at>>

fvars == <<ngx_http_top_header_filter, ngx_http_top_body_filter,
           ngx_http_next_header_filter, ngx_http_next_body_filter>>

ovars == <<other_ctx_ptr, other_ctx_state, other_bufs, other_bufs0, other_done>>

vars == <<hvars, ctx_ptr, ctx_state, bvars, mem0, bufs0, gvars, fvars, ovars>>

----------------------------------------------------------------------------
(* Program constants *)

state_text == 0
state_abort == 1
state_tag_pre == 2

NGX_HTTP_OK == 200
NGX_HTTP_FORBIDDEN == 403
NGX_HTTP_NOT_FOUND == 404

CR == 13
LF == 10
LT == 60
SLASH == 47

\* The string literals of the source, with their terminating NUL.
STR_text_html == <<116, 101, 120, 116, 47, 104, 116, 109, 108, 0>>
STR_pre == <<112, 114, 101, 0>>

----------------------------------------------------------------------------
(* Bounds of the model *)

MaxTok == 3      \* tokens in an enumerated memory image
MaxBufs == 2     \* buffers laid over an enumerated memory image

----------------------------------------------------------------------------
(* ngx_strncasecmp, as the nginx core defines it: compare at most n bytes, *)
(* folding A-Z to lower case, and stop at a NUL the two strings share.     *)
(* m is the memory s1 points into, a the address of s1; s2 is a literal    *)
(* with its NUL.  The result is [fault, rc]: fault when s1 is read after   *)
(* the end of the memory.                                                  *)

ngx_tolower(c) == IF c >= 65 /\ c <= 90 THEN c + 32 ELSE c

RECURSIVE ngx_strncasecmp(_, _, _, _, _)
ngx_strncasecmp(m, a, s2, j, n) ==
    IF n = 0 THEN [fault |-> FALSE, rc |-> 0]
    ELSE IF a > Len(m) THEN [fault |-> TRUE, rc |-> 0]
    ELSE LET c1 == ngx_tolower(m[a])
             c2 == ngx_tolower(s2[j])
         IN  IF c1 = c2
             THEN IF c1 # 0
                  THEN ngx_strncasecmp(m, a + 1, s2, j + 1, n - 1)
                  ELSE [fault |-> FALSE, rc |-> 0]
             ELSE [fault |-> FALSE, rc |-> c1 - c2]

\* the number of bytes of s1 that ngx_strncasecmp reads
RECURSIVE ngx_strncasecmp_reads(_, _, _, _, _)
ngx_strncasecmp_reads(m, a, s2, j, n) ==
    IF n = 0 THEN 0
    ELSE IF a > Len(m) THEN 1
    ELSE LET c1 == ngx_tolower(m[a])
             c2 == ngx_tolower(s2[j])
         IN  IF c1 = c2 /\ c1 # 0
             THEN 1 + ngx_strncasecmp_reads(m, a + 1, s2, j + 1, n - 1)
             ELSE 1

\* sizeof("pre" - 1) and sizeof("text/html" - 1): the size of a char *.
SizeofLiteralMinusOne(sz) == sz

\* is_tag_pre(reader): [fault, val], val = 1 when the comparison gives 0.
is_tag_pre(m, a, sz) ==
    LET r == ngx_strncasecmp(m, a, STR_pre, 1, SizeofLiteralMinusOne(sz))
    IN  [fault |-> r.fault, val |-> IF ~r.fault /\ r.rc = 0 THEN 1 ELSE 0]

----------------------------------------------------------------------------
(* The body filter as a step function on configurations.  A configuration  *)
(* c holds what the body filter and the functions it calls read and write: *)
(* mem, bufs, state (ctx->state), sz (the size of a pointer), in_last     *)
(* (the last link of the chain), pc, chain_link, reader, writer and the    *)
(* callee's                                                                *)
(* locals lreader, lwriter, i.  Locals that are out of scope are 0.        *)

CurBuf(c) == c.bufs[c.chain_link]

\* chain_link->next
NextLink(c) == IF c.chain_link < c.in_last THEN c.chain_link + 1 ELSE 0

\* *lwriter++ = *lreader++ in a callee
CopyLocal(c) ==
    [c EXCEPT !.mem = [c.mem EXCEPT ![c.lwriter] = c.mem[c.lreader]],
              !.lreader = c.lreader + 1,
              !.lwriter = c.lwriter + 1]

\* a callee that hands its writer back to the caller, but not its reader
ReturnWriterOnly(c) ==
    [c EXCEPT !.pc = "write", !.writer = c.lwriter,
              !.lreader = 0, !.lwriter = 0, !.i = 0]

\* the return of handle_tags and of ignore_preformatted_text: the cursors
\* were passed by value, the caller's reader and writer are as they were
Return(c) == [c EXCEPT !.pc = "write", !.lreader = 0, !.lwriter = 0, !.i = 0]

Fault(c) == [c EXCEPT !.pc = "fault"]

\* a for statement that sets the state to text for every buffer
StepForChainResetsState(c) ==
    IF c.chain_link = 0
    THEN [c EXCEPT !.pc = "idle"]
    ELSE [c EXCEPT !.pc = "for_strip",
                   !.state = state_text,
                   !.reader = CurBuf(c).pos,
                   !.writer = CurBuf(c).pos]

\* body filter, the for statement over the chain and the call after it
StepForChain(c) ==
    IF c.chain_link = 0
    THEN [c EXCEPT !.pc = "idle"]
    ELSE [c EXCEPT !.pc = "for_strip",
                   !.reader = CurBuf(c).pos,
                   !.writer = CurBuf(c).pos]

\* strip_buffer: *writer++ = *reader; and the loop's reader++
StepWrite(c) ==
    [c EXCEPT !.mem = [c.mem EXCEPT ![c.writer] = c.mem[c.reader]],
              !.writer = c.writer + 1,
              !.reader = c.reader + 1,
              !.pc = "for_strip"]

\* strip_buffer: the loop test, the two switch statements, and the
\* assignment to buffer->last when the loop ends
StepForStrip(c) ==
    IF c.reader < CurBuf(c).last
    THEN IF c.state = state_text
         THEN IF c.mem[c.reader] = CR \/ c.mem[c.reader] = LF
              THEN [c EXCEPT !.reader = c.reader + 1]
              ELSE IF c.mem[c.reader] = LT
                   THEN [c EXCEPT !.pc = "handle_tags",
                                  !.lreader = c.reader,
                                  !.lwriter = c.writer]
                   ELSE StepWrite(c)
         ELSE IF c.state = state_tag_pre
              THEN [c EXCEPT !.pc = "ignore_pre",
                             !.lreader = c.reader,
                             !.lwriter = c.writer]
              ELSE StepWrite(c)
    ELSE [c EXCEPT !.bufs[c.chain_link].last = c.writer,
                   !.chain_link = NextLink(c),
                   !.reader = 0,
                   !.writer = 0,
                   !.pc = "for_chain"]

\* handle_tags: write the opening angle, test the bytes after it
StepHandleTags(c) ==
    LET d == CopyLocal(c)
        t == is_tag_pre(d.mem, d.lreader, d.sz)
    IN  IF t.fault THEN Fault(d)
        ELSE IF t.val = 1
             THEN [d EXCEPT !.state = state_tag_pre, !.pc = "tags_copy", !.i = 0]
             ELSE Return(d)

\* handle_tags: for (i = 0; i < 3; i++) *writer++ = *reader++;
StepTagsCopy(c) ==
    IF c.i < 3
    THEN IF c.lreader > Len(c.mem) THEN Fault(c)
         ELSE [CopyLocal(c) EXCEPT !.i = c.i + 1]
    ELSE Return(c)

\* ignore_preformatted_text: one iteration of the inner while, or the
\* write of the slash and the test of the do-while
StepIgnorePre(c) ==
    IF c.lreader > Len(c.mem) THEN Fault(c)
    ELSE IF c.mem[c.lreader] # SLASH THEN CopyLocal(c)
    ELSE LET d == CopyLocal(c)
             t == is_tag_pre(d.mem, d.lreader, d.sz)
         IN  IF t.fault THEN Fault(d)
             ELSE IF t.val # 1 THEN d
             ELSE [d EXCEPT !.pc = "pre_copy", !.i = 0]

\* a scanner that ends the region in state_abort
StepPreCopyAborts(c) ==
    IF c.i < 3
    THEN IF c.lreader > Len(c.mem) THEN Fault(c)
         ELSE [CopyLocal(c) EXCEPT !.i = c.i + 1]
    ELSE [Return(c) EXCEPT !.state = state_abort]

\* ignore_preformatted_text: the copy of the 3 bytes, then state_text
StepPreCopy(c) ==
    IF c.i < 3
    THEN IF c.lreader > Len(c.mem) THEN Fault(c)
         ELSE [CopyLocal(c) EXCEPT !.i = c.i + 1]
    ELSE [Return(c) EXCEPT !.state = state_text]

Step(c) ==
    CASE c.pc = "for_chain"   -> StepForChain(c)
      [] c.pc = "for_strip"   -> StepForStrip(c)
      [] c.pc = "write"       -> StepWrite(c)
      [] c.pc = "handle_tags" -> StepHandleTags(c)
      [] c.pc = "tags_copy"   -> StepTagsCopy(c)
      [] c.pc = "ignore_pre"  -> StepIgnorePre(c)
      [] c.pc = "pre_copy"    -> StepPreCopy(c)
      [] OTHER                -> c

\* strip_buffer from its entry to its return (pc = "for_chain") or a fault
RECURSIVE ngx_http_no_newlines_strip_buffer(_)
ngx_http_no_newlines_strip_buffer(c) ==
    LET d == Step(c)
    IN  IF d.pc \in {"for_chain", "fault", "idle"} THEN d
        ELSE ngx_http_no_newlines_strip_buffer(d)

----------------------------------------------------------------------------
(* Inputs.  A memory image is a concatenation of tokens; the buffers of a  *)
(* response are laid over it by a sequence of cuts: buffer j ends after    *)
(* byte cuts[j] and the next one starts there.  The bytes after the last   *)
(* cut are in memory but in no buffer.  The enumerated layouts have no     *)
(* empty buffer; the scenarios have one.                                   *)

STR_lower_pre == <<112, 114, 101>>
STR_upper_pre == <<80, 82, 69>>
STR_foo == <<102, 111, 111>>
STR_div == <<100, 105, 118>>

Tokens == {<<LF>>, <<LT>>, <<SLASH>>, STR_lower_pre, <<0>>}

RECURSIVE TokStrings(_)
TokStrings(n) ==
    IF n = 0 THEN {<<>>}
    ELSE LET S == TokStrings(n - 1)
         IN  S \cup {s \o t : s \in S, t \in Tokens}

RECURSIVE Cuts(_, _, _)
Cuts(n, k, lo) ==
    IF k = 0 THEN {<<>>}
    ELSE UNION {{<<a>> \o r : r \in Cuts(n, k - 1, a + 1)} : a \in lo..n}

Layouts(n) == UNION {Cuts(n, k, 1) : k \in 1..MaxBufs}

BufsOf(cuts) ==
    [j \in 1..Len(cuts) |->
        [pos |-> IF j = 1 THEN 1 ELSE cuts[j - 1] + 1, last |-> cuts[j] + 1]]

Enumerated ==
    UNION {{[image |-> s, cuts |-> l] : l \in Layouts(Len(s))} : s \in TokStrings(MaxTok)}

\* "<pre>\r\nfoo\r\n</pre>"
IMG_pre_region ==
    <<LT>> \o STR_lower_pre \o <<62, CR, LF>> \o STR_foo \o <<CR, LF, LT, SLASH>>
    \o STR_lower_pre \o <<62>>
\* "<div>\r\nx</div>"
IMG_div == <<LT>> \o STR_div \o <<62, CR, LF, 120, LT, SLASH>> \o STR_div \o <<62>>
\* "a\r\nb"
IMG_ab == <<97, CR, LF, 98>>
\* "<PRE\0\n/Pre\0\nx": a tag and an end tag is_tag_pre accepts
IMG_pre_nul == <<LT>> \o STR_upper_pre \o <<0, LF, SLASH, 80, 114, 101, 0, LF, 120>>
\* "\n<pre\0ab/pre\0": the same after a byte that is removed
IMG_lf_pre_nul == <<LF, LT>> \o STR_lower_pre \o <<0, 97, 98, SLASH>> \o STR_lower_pre \o <<0>>
\* "\n\n\n\n<pre\0\nb/pre\0": the same after four bytes that are removed
IMG_lf4_pre_nul ==
    <<LF, LF, LF, LF, LT>> \o STR_lower_pre \o <<0, LF, 98, SLASH>> \o STR_lower_pre \o <<0>>
\* "<pre>\n</pre>", cut after "<pr"
IMG_pre_short == <<LT>> \o STR_lower_pre \o <<62, LF, LT, SLASH>> \o STR_lower_pre \o <<62>>

Scenarios ==
    {[image |-> IMG_pre_region, cuts |-> <<Len(IMG_pre_region)>>],
     [image |-> IMG_div, cuts |-> <<Len(IMG_div)>>],
     [image |-> IMG_ab, cuts |-> <<Len(IMG_ab)>>],
     [image |-> IMG_ab, cuts |-> <<0, 2, 2, Len(IMG_ab)>>],
     [image |-> IMG_pre_nul, cuts |-> <<Len(IMG_pre_nul)>>],
     [image |-> IMG_pre_nul, cuts |-> <<3, Len(IMG_pre_nul)>>],
     [image |-> IMG_lf_pre_nul, cuts |-> <<Len(IMG_lf_pre_nul)>>],
     [image |-> IMG_lf_pre_nul, cuts |-> <<2, Len(IMG_lf_pre_nul)>>],
     [image |-> IMG_lf4_pre_nul, cuts |-> <<Len(IMG_lf4_pre_nul)>>],
     [image |-> IMG_pre_short, cuts |-> <<3, Len(IMG_pre_short)>>]}

Inputs == Enumerated \cup Scenarios

----------------------------------------------------------------------------
(* Requests: the response metadata the header filter reads. *)

\* "text/html", "text/htmx", "Text/HTML;", "text/plain", "image/png"
CT_text_html == <<116, 101, 120, 116, 47, 104, 116, 109, 108>>
CT_text_htmx == <<116, 101, 120, 116, 47, 104, 116, 109, 120>>
CT_Text_HTML_semi == <<84, 101, 120, 116, 47, 72, 84, 77, 76, 59>>
CT_text_plain == <<116, 101, 120, 116, 47, 112, 108, 97, 105, 110>>
CT_image_png == <<105, 109, 97, 103, 101, 47, 112, 110, 103>>

ContentTypes ==
    {<<>>, CT_text_html, CT_text_htmx, CT_Text_HTML_semi, CT_text_plain, CT_image_png}

\* content_encoding is a pointer to a header: absent, or present with a value
ContentEncodings ==
    {[present |-> FALSE, value |-> <<>>],
     [present |-> TRUE, value |-> <<>>],
     [present |-> TRUE, value |-> <<103, 122, 105, 112>>]}

Statuses == {NGX_HTTP_OK, NGX_HTTP_FORBIDDEN, NGX_HTTP_NOT_FOUND, 304, 500}

AllRequests ==
    [status : Statuses, header_only : BOOLEAN, content_type : ContentTypes,
     content_encoding : ContentEncodings]

BodyRequests ==
    {q \in AllRequests :
        /\ q.status = NGX_HTTP_OK
        /\ ~q.header_only
        /\ ~q.content_encoding.present
        /\ q.content_type \in {CT_text_html, CT_image_png}}

PointerSizes == {4, 8}

\* the process before the module's postconfiguration has run: the host's
\* filters are the top of the chains, the module's statics are zero
InitFilterChain ==
    /\ ngx_http_top_header_filter = "host_header_filter"
    /\ ngx_http_top_body_filter = "host_body_filter"
    /\ ngx_http_next_header_filter = "NULL"
    /\ ngx_http_next_body_filter = "NULL"

NoOtherResponse ==
    /\ other_ctx_ptr = "NULL"
    /\ other_ctx_state = -1
    /\ other_bufs = <<>>
    /\ other_bufs0 = <<>>
    /\ other_done = FALSE

\* a response before its header filter has run
InitResponse(requests, inputs, sizes) ==
    /\ InitFilterChain
    /\ \E q \in requests :
        /\ status = q.status
        /\ header_only = q.header_only
        /\ content_type = q.content_type
        /\ content_encoding = q.content_encoding
    /\ content_length_n = 100
    /\ allow_ranges = TRUE
    /\ main_filter_need_in_memory = FALSE
    /\ ctx_ptr = "NULL"
    /\ ctx_state = -1
    /\ sizeof_ptr \in sizes
    /\ header_rc = "pending"
    /\ pcalloc = "not_called"
    /\ next_header_calls = 0
    /\ \E x \in inputs :
        /\ mem = x.image
        /\ bufs = BufsOf(x.cuts)
    /\ mem0 = mem
    /\ bufs0 = bufs
    /\ in_first = 1
    /\ in_last = 0
    /\ next_body_calls = 0
    /\ pc = "idle"
    /\ chain_link = 0
    /\ reader = 0
    /\ writer = 0
    /\ lreader = 0
    /\ lwriter = 0
    /\ i = 0
    /\ start_state = [k \in 1..Len(bufs) |-> -1]
    /\ end_state = [k \in 1..Len(bufs) |-> -1]
    /\ strip_calls = [k \in 1..Len(bufs) |-> 0]
    /\ tag_at = 0

InitWith(requests, inputs, sizes) ==
    /\ InitResponse(requests, inputs, sizes)
    /\ NoOtherResponse

Init == InitWith(BodyRequests, Inputs, {8})

----------------------------------------------------------------------------
(* The header filter *)

\* step 1 of the header filter: the first if
NoNeedToFilter ==
    \/ (status # NGX_HTTP_OK /\ status # NGX_HTTP_FORBIDDEN
        /\ status # NGX_HTTP_NOT_FOUND)
    \/ header_only
    \/ Len(content_type) = 0
    \/ (content_encoding.present /\ Len(content_encoding.value) # 0)

\* the second if: ngx_strncasecmp(content_type.data, "text/html", sizeof(...)) != 0
NotTextHtml ==
    ngx_strncasecmp(content_type, 1, STR_text_html, 1,
                    SizeofLiteralMinusOne(sizeof_ptr)).rc # 0

\* an error return that comes after the headers were cleared
AllocationFailedAfterClear ==
    /\ header_rc' = "NGX_ERROR"
    /\ content_length_n' = -1
    /\ allow_ranges' = FALSE
    /\ UNCHANGED <<next_header_calls, ctx_ptr, ctx_state,
                   main_filter_need_in_memory>>

\* if (ctx == NULL) return NGX_ERROR;
AllocationFailed ==
    /\ header_rc' = "NGX_ERROR"
    /\ UNCHANGED <<next_header_calls, ctx_ptr, ctx_state, content_length_n,
                   allow_ranges, main_filter_need_in_memory>>

\* step 2 without ngx_http_clear_accept_ranges
OperateOnHeaderKeepsRanges ==
    /\ ctx_ptr' = "ctx"
    /\ ctx_state' = state_text
    /\ content_length_n' = -1
    /\ allow_ranges' = allow_ranges
    /\ main_filter_need_in_memory' = TRUE

\* step 2: set the ctx (ngx_pcalloc zeroes it: state_text), clear the
\* content length and the accept ranges, ask for the body in memory
OperateOnHeader ==
    /\ ctx_ptr' = "ctx"
    /\ ctx_state' = state_text
    /\ content_length_n' = -1
    /\ allow_ranges' = FALSE
    /\ main_filter_need_in_memory' = TRUE

\* postconfiguration: put the module's filters on top of the chains
FilterInit ==
    /\ ngx_http_top_header_filter # "ngx_http_no_newlines_header_filter"
    /\ ngx_http_next_header_filter' = ngx_http_top_header_filter
    /\ ngx_http_top_header_filter' = "ngx_http_no_newlines_header_filter"
    /\ ngx_http_next_body_filter' = ngx_http_top_body_filter
    /\ ngx_http_top_body_filter' = "ngx_http_no_newlines_body_filter"
    /\ UNCHANGED <<hvars, ctx_ptr, ctx_state, bvars, mem0, bufs0, gvars, ovars>>

HeaderFilter ==
    /\ ngx_http_top_header_filter = "ngx_http_no_newlines_header_filter"
    /\ header_rc = "pending"
    /\ \E p \in {"ok", "NULL"} :
        IF NoNeedToFilter \/ NotTextHtml
        THEN /\ next_header_calls' = next_header_calls + 1
             /\ header_rc' = "next"
             /\ UNCHANGED <<pcalloc, ctx_ptr, ctx_state, content_length_n,
                            allow_ranges, main_filter_need_in_memory>>
        ELSE /\ pcalloc' = p
             /\ IF p = "NULL"
                THEN AllocationFailed
                ELSE /\ OperateOnHeader
                     /\ next_header_calls' = next_header_calls + 1
                     /\ header_rc' = "next"
    /\ UNCHANGED <<status, header_only, content_type, content_encoding,
                   sizeof_ptr, bvars, mem0, bufs0, gvars, fvars, ovars>>

----------------------------------------------------------------------------
(* The body filter *)

Cfg ==
    [mem |-> mem, bufs |-> bufs, state |-> ctx_state, sz |-> sizeof_ptr,
     in_last |-> in_last, pc |-> pc, chain_link |-> chain_link,
     reader |-> reader, writer |-> writer,
     lreader |-> lreader, lwriter |-> lwriter, i |-> i]

Apply(d) ==
    /\ mem' = d.mem
    /\ bufs' = d.bufs
    /\ ctx_state' = d.state
    /\ pc' = d.pc
    /\ chain_link' = d.chain_link
    /\ reader' = d.reader
    /\ writer' = d.writer
    /\ lreader' = d.lreader
    /\ lwriter' = d.lwriter
    /\ i' = d.i
    /\ UNCHANGED <<hvars, ctx_ptr, in_first, in_last, mem0, bufs0, fvars, ovars>>

\* a body filter that does not test the ctx it got
CtxIsNullNotTested == FALSE

\* ctx = ngx_http_get_module_ctx(...); if (ctx == NULL)
CtxIsNull == ctx_ptr = "NULL"

\* a body filter that keeps the state the last invocation left
InitialStateKept == ctx_state

\* ctx->state = state_text;
InitialState == state_text

\* The host calls the body filter with the next n buffers of the response.
\* Entry: get the ctx; pass the chain on when there is none, else set the
\* state to text and start the loop over the chain.
BodyFilter ==
    /\ pc = "idle"
    /\ header_rc = "next"
    /\ \E n \in 0..(Len(bufs) - in_last) :
        /\ in_first' = in_last + 1
        /\ in_last' = in_last + n
        /\ IF CtxIsNull
           THEN /\ next_body_calls' = 1
                /\ UNCHANGED <<ctx_state, pc, chain_link>>
           ELSE /\ next_body_calls' = 0
                /\ ctx_state' = InitialState
                /\ chain_link' = IF n = 0 THEN 0 ELSE in_last + 1
                /\ pc' = "for_chain"
    /\ UNCHANGED <<hvars, ctx_ptr, mem, bufs, reader, writer, lreader, lwriter,
                   i, start_state, end_state, mem0, bufs0, gvars, fvars, ovars>>

ForChain ==
    /\ pc = "for_chain"
    /\ Apply(StepForChain(Cfg))
    /\ next_body_calls' = IF chain_link = 0 THEN next_body_calls + 1
                          ELSE next_body_calls
    /\ start_state' = IF chain_link = 0 THEN start_state
                      ELSE [start_state EXCEPT ![chain_link] = ctx_state']
    /\ strip_calls' = IF chain_link = 0 THEN strip_calls
                      ELSE [strip_calls EXCEPT ![chain_link] = @ + 1]
    /\ tag_at' = 0
    /\ UNCHANGED end_state

ForStrip ==
    /\ pc = "for_strip"
    /\ Apply(StepForStrip(Cfg))
    /\ end_state' = IF StepForStrip(Cfg).pc = "for_chain"
                    THEN [end_state EXCEPT ![chain_link] = ctx_state]
                    ELSE end_state
    /\ UNCHANGED <<next_body_calls, start_state, gvars>>

Write ==
    /\ pc = "write"
    /\ Apply(StepWrite(Cfg))
    /\ UNCHANGED <<next_body_calls, start_state, end_state, gvars>>

HandleTags ==
    /\ pc = "handle_tags"
    /\ Apply(StepHandleTags(Cfg))
    /\ tag_at' = IF StepHandleTags(Cfg).pc = "tags_copy" THEN reader ELSE tag_at
    /\ UNCHANGED <<next_body_calls, start_state, end_state, strip_calls>>

TagsCopy ==
    /\ pc = "tags_copy"
    /\ Apply(StepTagsCopy(Cfg))
    /\ UNCHANGED <<next_body_calls, start_state, end_state, gvars>>

IgnorePre ==
    /\ pc = "ignore_pre"
    /\ Apply(StepIgnorePre(Cfg))
    /\ UNCHANGED <<next_body_calls, start_state, end_state, gvars>>

PreCopy ==
    /\ pc = "pre_copy"
    /\ Apply(StepPreCopy(Cfg))
    /\ UNCHANGED <<next_body_calls, start_state, end_state, gvars>>

\* The header filter of the second response.  Its request is its own; the
\* filter gives it a ctx of its own (zeroed: state_text) when its content
\* type passes the two tests and the allocation succeeds.
OtherHeaderFilter ==
    /\ ngx_http_top_header_filter = "ngx_http_no_newlines_header_filter"
    /\ other_ctx_ptr = "pending"
    /\ \E t \in {CT_text_html, CT_image_png} :
        LET passes == ngx_strncasecmp(t, 1, STR_text_html, 1,
                                      SizeofLiteralMinusOne(sizeof_ptr)).rc = 0
        IN  /\ other_ctx_ptr' = IF passes THEN "ctx" ELSE "NULL"
            /\ other_ctx_state' = IF passes THEN state_text ELSE other_ctx_state
    /\ UNCHANGED <<hvars, ctx_ptr, ctx_state, bvars, mem0, bufs0, gvars, fvars,
                   other_bufs, other_bufs0, other_done>>

\* the configuration in which strip_buffer is entered for buffer b
EnterStrip(m, b, sz) ==
    [mem |-> m, bufs |-> <<b>>, state |-> InitialState, sz |-> sz,
     in_last |-> 1, pc |-> "for_strip", chain_link |-> 1,
     reader |-> b.pos, writer |-> b.pos, lreader |-> 0, lwriter |-> 0, i |-> 0]

\* The body filter of the second response, called with its one buffer.  A
\* worker runs an invocation to its return before it starts another, so
\* this one runs between two invocations for the first response.
OtherBodyFilter ==
    /\ pc = "idle"
    /\ other_ctx_ptr \in {"NULL", "ctx"}
    /\ ~other_done
    /\ other_done' = TRUE
    /\ IF other_ctx_ptr = "NULL"
       THEN UNCHANGED <<mem, other_bufs, other_ctx_state, pc>>
       ELSE LET d == ngx_http_no_newlines_strip_buffer(
                         EnterStrip(mem, other_bufs[1], sizeof_ptr))
            IN  /\ mem' = d.mem
                /\ other_bufs' = d.bufs
                /\ other_ctx_state' = d.state
                /\ pc' = IF d.pc = "fault" THEN "fault" ELSE pc
    /\ UNCHANGED <<hvars, ctx_ptr, ctx_state, bufs, in_first, in_last,
                   next_body_calls, chain_link, reader, writer, lreader, lwriter,
                   i, start_state, end_state, mem0, bufs0, gvars, fvars,
                   other_ctx_ptr, other_bufs0>>

Next ==
    \/ FilterInit
    \/ HeaderFilter
    \/ BodyFilter
    \/ ForChain
    \/ ForStrip
    \/ Write
    \/ HandleTags
    \/ TagsCopy
    \/ IgnorePre
    \/ PreCopy

Spec == Init /\ [][Next]_vars

\* The header filter over every combination of response metadata and both
\* pointer sizes, with the scenario bodies.
InitHeader == InitWith(AllRequests, Scenarios, PointerSizes)

SpecHeader == InitHeader /\ [][Next]_vars

\* The steps of a body filter invocation.  An invocation that has started
\* runs on for as long as it has a step to take.
BodySteps ==
    ForChain \/ ForStrip \/ Write \/ HandleTags \/ TagsCopy \/ IgnorePre \/ PreCopy

SpecLive == Init /\ [][Next]_vars /\ WF_vars(BodySteps)

\* Two responses of one worker.  The first has one buffer, the second has
\* one buffer that starts where the first one's ends.
TwoInputs ==
    {[image |-> x.image, cuts |-> <<x.cuts[1]>>] :
        x \in {y \in Inputs : y.cuts[1] < Len(y.image)}}

InitTwo ==
    /\ InitResponse(BodyRequests, TwoInputs, {8})
    /\ other_ctx_ptr = "pending"
    /\ other_ctx_state = -1
    /\ \E b \in bufs[1].last..Len(mem) :
        other_bufs = <<[pos |-> bufs[1].last, last |-> b + 1]>>
    /\ other_bufs0 = other_bufs
    /\ other_done = FALSE

NextTwo == Next \/ OtherHeaderFilter \/ OtherBodyFilter

SpecTwo == InitTwo /\ [][NextTwo]_vars

----------------------------------------------------------------------------
(* What the claims speak of *)

\* the bytes of buffer k as first received, and as they are now
In(k) == SubSeq(mem0, bufs0[k].pos, bufs0[k].last - 1)
Out(k) == SubSeq(mem, bufs[k].pos, bufs[k].last - 1)

\* strip_buffer was called for buffer k and has returned
Processed(k) == start_state[k] # -1 /\ end_state[k] # -1

IsNewline(b) == b = CR \/ b = LF

RECURSIVE WithoutNewlines(_)
WithoutNewlines(s) ==
    IF s = <<>> THEN <<>>
    ELSE IF IsNewline(Head(s)) THEN WithoutNewlines(Tail(s))
    ELSE <<Head(s)>> \o WithoutNewlines(Tail(s))

\* s is t with some bytes removed
RECURSIVE IsSubseq(_, _)
IsSubseq(s, t) ==
    IF s = <<>> THEN TRUE
    ELSE IF t = <<>> THEN FALSE
    ELSE IF Head(s) = Head(t) THEN IsSubseq(Tail(s), Tail(t))
    ELSE IsSubseq(s, Tail(t))

\* the letters p, r, e in either case at s[a], s[a+1], s[a+2]
PreAt(s, a) ==
    /\ a >= 1
    /\ a + 2 <= Len(s)
    /\ \A j \in 1..3 : ngx_tolower(s[a + j - 1]) = STR_lower_pre[j]

\* "<pre" at s[a]; "</pre" with its slash at s[b]
OpenTagAt(s, a) == a >= 1 /\ a <= Len(s) /\ s[a] = LT /\ PreAt(s, a + 1)
CloseTagAt(s, b) ==
    b >= 2 /\ b <= Len(s) /\ s[b - 1] = LT /\ s[b] = SLASH /\ PreAt(s, b + 1)

HasNewline(s) == \E j \in 1..Len(s) : IsNewline(s[j])

----------------------------------------------------------------------------
(* C1.  As claimed: for every buffer that strip_buffer started in the text *)
(* state and that holds a matched "<pre" ... "</pre" region, every byte    *)
(* from the "<pre" through the closing "/pre", newlines included, is in    *)
(* the output, unchanged and in order.  (Stated for the first region of    *)
(* the buffer.)  The code does not do this.                                *)

FirstRegion(s, a, b) ==
    /\ OpenTagAt(s, a)
    /\ CloseTagAt(s, b)
    /\ b - 1 > a + 3
    /\ \A x \in 1..(a - 1) : ~OpenTagAt(s, x)
    /\ \A x \in (a + 1)..(b - 1) : ~CloseTagAt(s, x)

C1_PreRegionKept ==
    \A k \in 1..Len(bufs) :
        (Processed(k) /\ start_state[k] = state_text) =>
            \A a \in 1..Len(In(k)) : \A b \in 1..Len(In(k)) :
                FirstRegion(In(k), a, b) =>
                    IsSubseq(SubSeq(In(k), a, b + 3), Out(k))

(* C2.  As claimed: a buffer started in the text state that holds no "<"   *)
(* followed at once by "pre" (in either case) comes out as its input with  *)
(* every CR and LF deleted and nothing else, and the state is text when    *)
(* strip_buffer returns.  The code does not do this when the bytes after   *)
(* a "<" near the end of the buffer lie outside the buffer.                *)

C2_NoPreOnlyNewlinesRemoved ==
    \A k \in 1..Len(bufs) :
        (/\ Processed(k)
         /\ start_state[k] = state_text
         /\ \A a \in 1..Len(In(k)) : ~OpenTagAt(In(k), a)) =>
            /\ Out(k) = WithoutNewlines(In(k))
            /\ end_state[k] = state_text

(* C3.  As claimed: for every buffer and start state, the bytes of the     *)
(* buffer after strip_buffer are the bytes it had before with some bytes   *)
(* removed: none changed, doubled, reordered or added.  The code does not  *)
(* do this.                                                                *)

C3_OutputIsSubsequence ==
    \A k \in 1..Len(bufs) : Processed(k) => IsSubseq(Out(k), In(k))

(* C4.  At every step the writer is at or behind the reader, in            *)
(* strip_buffer and in the local cursors of handle_tags and                *)
(* ignore_preformatted_text, and no buffer's last is ever after the last   *)
(* it came with: the output is never longer than the input.                *)

C4_WriterNotAheadOfReader ==
    /\ writer <= reader
    /\ lwriter <= lreader
    /\ \A k \in 1..Len(bufs) :
        /\ bufs[k].pos = bufs0[k].pos
        /\ bufs[k].last <= bufs0[k].last
        /\ Len(Out(k)) <= Len(In(k))

\* ignore_preformatted_text is copying the end tag, with both pairs of
\* cursors apart
C4_Witness ==
    /\ pc = "pre_copy"
    /\ lwriter < lreader
    /\ writer < reader

(* C5.  As claimed: the header filter attaches a ctx if and only if the    *)
(* status is 200, 403 or 404, the response is not header-only, the content *)
(* type is not empty, no content encoding with a value is set, and the     *)
(* content type begins, in either case, with the 9 bytes of "text/html".   *)
(* The code compares fewer bytes than 9.                                   *)

BeginsWithTextHtml(s) ==
    /\ Len(s) >= 9
    /\ \A j \in 1..9 : ngx_tolower(s[j]) = STR_text_html[j]

EligibleAsClaimed ==
    /\ status \in {NGX_HTTP_OK, NGX_HTTP_FORBIDDEN, NGX_HTTP_NOT_FOUND}
    /\ ~header_only
    /\ Len(content_type) # 0
    /\ ~(content_encoding.present /\ Len(content_encoding.value) # 0)
    /\ BeginsWithTextHtml(content_type)

C5_CtxIffTextHtml ==
    header_rc = "next" => (ctx_ptr = "ctx" <=> EligibleAsClaimed)

(* C6.  As claimed: when the header filter decides that a response is      *)
(* eligible it creates the ctx with state text, clears the content length  *)
(* and the accept ranges and sets the in-memory flag; when it decides to   *)
(* pass the response through it leaves all of these as they were.  This    *)
(* fails when the allocation of the ctx fails.                             *)

DecidedEligible == ~NoNeedToFilter /\ ~NotTextHtml

NoBufferStarted == \A k \in 1..Len(bufs) : start_state[k] = -1

HeaderOperated ==
    /\ ctx_ptr = "ctx"
    /\ ctx_state = state_text
    /\ content_length_n = -1
    /\ ~allow_ranges
    /\ main_filter_need_in_memory

HeaderUntouched ==
    /\ ctx_ptr = "NULL"
    /\ ctx_state = -1
    /\ content_length_n = 100
    /\ allow_ranges
    /\ ~main_filter_need_in_memory

C6_AsClaimed ==
    (header_rc # "pending" /\ NoBufferStarted) =>
        IF DecidedEligible THEN HeaderOperated ELSE HeaderUntouched

(* C6, amended.  When the header filter decides that a response is         *)
(* eligible and the allocation of the ctx succeeds, it creates the ctx     *)
(* with state text, clears the content length and the accept ranges and    *)
(* sets the in-memory flag; when it decides to pass the response through   *)
(* it leaves all of these as they were.                                    *)

C6_EligibleOperatedElseUntouched ==
    (header_rc # "pending" /\ NoBufferStarted) =>
        IF DecidedEligible
        THEN pcalloc # "NULL" => HeaderOperated
        ELSE HeaderUntouched

\* the header filter has operated on an eligible response
C6_Witness ==
    /\ header_rc = "next"
    /\ DecidedEligible
    /\ pcalloc = "ok"
    /\ ctx_ptr = "ctx"
    /\ NoBufferStarted

(* C7.  As claimed: when the first of two consecutive buffers of one chain  *)
(* ends with "<pr" and the next begins with "e", the tag is still found:   *)
(* the next buffer is processed in the tag_pre state, and its bytes up to  *)
(* the closing "/pre", CR and LF included, are kept.  The code does not    *)
(* do this.                                                                *)

SplitTag(k) ==
    /\ Len(In(k)) >= 3
    /\ In(k)[Len(In(k)) - 2] = LT
    /\ ngx_tolower(In(k)[Len(In(k)) - 1]) = STR_lower_pre[1]
    /\ ngx_tolower(In(k)[Len(In(k))]) = STR_lower_pre[2]
    /\ Len(In(k + 1)) >= 1
    /\ ngx_tolower(In(k + 1)[1]) = STR_lower_pre[3]
    /\ \A a \in 1..Len(In(k)) : ~OpenTagAt(In(k), a)

\* the first "/pre" of s has its slash at s[b]
FirstSlashPre(s, b) ==
    /\ b >= 1
    /\ b <= Len(s)
    /\ s[b] = SLASH
    /\ PreAt(s, b + 1)
    /\ \A x \in 1..(b - 1) : ~(s[x] = SLASH /\ PreAt(s, x + 1))

C7_SplitTagFound ==
    \A k \in 1..(Len(bufs) - 1) :
        (/\ in_first <= k
         /\ k + 1 <= in_last
         /\ Processed(k)
         /\ Processed(k + 1)
         /\ start_state[k] = state_text
         /\ SplitTag(k)) =>
            /\ start_state[k + 1] = state_tag_pre
            /\ \A b \in 1..Len(In(k + 1)) :
                FirstSlashPre(In(k + 1), b) =>
                    IsSubseq(SubSeq(In(k + 1), 1, b + 3), Out(k + 1))

(* C8.  As claimed: for every buffer processed from the text state,        *)
(* running strip_buffer once more from the text state on the output gives  *)
(* the output again.  (Stated for a response of one buffer that fills the  *)
(* memory, where the first run reads no byte outside the buffer.)  The     *)
(* code does not do this.                                                  *)

SecondRun(k) ==
    ngx_http_no_newlines_strip_buffer(EnterStrip(mem, bufs[k], sizeof_ptr))

C8_Idempotent ==
    \A k \in 1..Len(bufs) :
        (/\ Processed(k)
         /\ start_state[k] = state_text
         /\ Len(bufs) = 1
         /\ bufs0[k].last = Len(mem0) + 1) =>
            LET d == SecondRun(k)
            IN  /\ d.pc = "for_chain"
                /\ SubSeq(d.mem, d.bufs[1].pos, d.bufs[1].last - 1) = Out(k)

(* C9.  For a response to which the header filter attached no ctx, every   *)
(* invocation of the body filter calls the next body filter once and       *)
(* leaves the memory and every buffer's pos and last as they were, CR and  *)
(* LF included.                                                            *)

C9_NoCtxPassThrough ==
    ctx_ptr = "NULL" =>
        /\ mem = mem0
        /\ bufs = bufs0
        /\ pc = "idle"
        /\ NoBufferStarted
        /\ in_last >= 1 => next_body_calls = 1

\* a chain with newlines in it went through the body filter of a response
\* that has no ctx
C9_Witness ==
    /\ header_rc = "next"
    /\ ctx_ptr = "NULL"
    /\ in_last >= 1
    /\ next_body_calls = 1
    /\ \E k \in in_first..in_last : HasNewline(Out(k))

(* C10.  When the allocation of the ctx fails the header filter returns    *)
(* an error, does not call the next header filter, attaches no ctx and     *)
(* leaves the content length, the accept ranges and the in-memory flag as  *)
(* they were; and it returns an error of its own in no other case.         *)

C10_AllocationFailure ==
    /\ pcalloc = "NULL" =>
        /\ header_rc = "NGX_ERROR"
        /\ next_header_calls = 0
        /\ HeaderUntouched
    /\ header_rc = "NGX_ERROR" => (pcalloc = "NULL" /\ DecidedEligible)

\* the allocation failed for an eligible response
C10_Witness ==
    /\ pcalloc = "NULL"
    /\ header_rc = "NGX_ERROR"
    /\ DecidedEligible

----------------------------------------------------------------------------
(* C11.  As claimed: when invocations for two responses interleave, the    *)
(* state and the output of each response are those of its invocations run  *)
(* alone on the memory as it first was, and an invocation for one response *)
(* leaves the bytes of the other's buffer as they were.                    *)

Bytes(m, b) == SubSeq(m, b.pos, b.last - 1)

\* strip_buffer run alone for buffer b, in memory as it first was
Alone(b) == ngx_http_no_newlines_strip_buffer(EnterStrip(mem0, b, sizeof_ptr))

C11_ResponsesIndependent ==
    other_bufs0 # <<>> =>
        /\ ~other_done =>
               Bytes(mem, other_bufs0[1]) = Bytes(mem0, other_bufs0[1])
        /\ (ctx_ptr = "ctx" /\ Processed(1) /\ Alone(bufs0[1]).pc # "fault") =>
               /\ end_state[1] = Alone(bufs0[1]).state
               /\ Out(1) = Bytes(Alone(bufs0[1]).mem, Alone(bufs0[1]).bufs[1])
        /\ (other_ctx_ptr = "ctx" /\ other_done /\ pc # "fault"
              /\ Alone(other_bufs0[1]).pc # "fault") =>
               /\ other_ctx_state = Alone(other_bufs0[1]).state
               /\ Bytes(mem, other_bufs[1])
                    = Bytes(Alone(other_bufs0[1]).mem, Alone(other_bufs0[1]).bufs[1])

----------------------------------------------------------------------------
(* C12.  As claimed: when handle_tags is called at a "<" whose next 3      *)
(* bytes are in the buffer and are "pre" in either case, the state becomes *)
(* state_tag_pre, and                                                      *)
(* when strip_buffer goes on after that call its reader and its writer are *)
(* 4 bytes further, past the "<" and the 3 bytes: no iteration of its loop *)
(* starts at the p, the r or the e.                                        *)

\* strip_buffer goes on after the call of handle_tags that found the tag
ResumesAfterTag == pc = "write" /\ tag_at # 0 /\ reader = tag_at

C12_TagStep ==
    /\ (HandleTags /\ PreAt(mem, reader + 1) /\ reader + 3 < bufs[chain_link].last
          /\ pc' # "fault") =>
           ctx_state' = state_tag_pre
    /\ (ResumesAfterTag /\ pc' = "for_strip") =>
           /\ reader' = reader + 4
           /\ writer' = writer + 4

C12_CursorsPastPre == [][C12_TagStep]_vars

----------------------------------------------------------------------------
(* C13.  As claimed: while a buffer is stripped, the state goes from       *)
(* state_tag_pre to state_text only when strip_buffer's reader is past a   *)
(* "/" followed by "pre" in either case; and no iteration of strip_buffer's *)
(* loop in state_text starts at a byte between the "<pre" that was found   *)
(* and the first "/pre" after it.                                          *)

\* the first "/" followed by "pre" after address a, at b
FirstCloseAfter(s, a, b) ==
    /\ b > a
    /\ b <= Len(s)
    /\ s[b] = SLASH
    /\ PreAt(s, b + 1)
    /\ \A x \in (a + 1)..(b - 1) : ~(s[x] = SLASH /\ PreAt(s, x + 1))

C13_RegionStep ==
    /\ (pc # "idle" /\ ctx_state = state_tag_pre /\ ctx_state' = state_text) =>
           \E b \in 1..Len(mem) :
               mem[b] = SLASH /\ PreAt(mem, b + 1) /\ reader' > b + 3
    /\ (pc' = "for_strip" /\ ctx_state' = state_text /\ tag_at' # 0) =>
           \A b \in 1..Len(mem0) :
               FirstCloseAfter(mem0, tag_at', b) => reader' > b + 3

C13_TextOnlyPastClose == [][C13_RegionStep]_vars

----------------------------------------------------------------------------
(* C14.  As claimed: when handle_tags is about to call is_tag_pre on 3     *)
(* bytes that have a byte after them, is_tag_pre returns 1 exactly when    *)
(* the 3 bytes are "pre" in either case, and it reads no more than those   *)
(* 3 bytes.                                                                *)

C14_IsTagPreThreeBytes ==
    (pc = "handle_tags" /\ lreader + 4 <= Len(mem)) =>
        /\ is_tag_pre(mem, lreader + 1, sizeof_ptr).val = 1
               <=> PreAt(mem, lreader + 1)
        /\ ngx_strncasecmp_reads(mem, lreader + 1, STR_pre, 1,
                                 SizeofLiteralMinusOne(sizeof_ptr)) <= 3

----------------------------------------------------------------------------
(* C15.  As claimed: while a buffer is stripped, the bytes that the next   *)
(* step reads and writes are all inside the buffer's range from pos up to  *)
(* but not including last, and no read has gone outside the memory.        *)

InBuffer(a) == bufs[chain_link].pos <= a /\ a < bufs[chain_link].last

\* the bytes is_tag_pre reads when it is called with the callee's reader at a
PeekInBuffer(a) ==
    \A x \in 1..ngx_strncasecmp_reads(mem, a, STR_pre, 1,
                                       SizeofLiteralMinusOne(sizeof_ptr)) :
        InBuffer(a + x - 1)

C15_AccessesInsideBuffer ==
    /\ pc # "fault"
    /\ pc = "write" => InBuffer(reader) /\ InBuffer(writer)
    /\ pc = "handle_tags" =>
           InBuffer(lreader) /\ InBuffer(lwriter) /\ PeekInBuffer(lreader + 1)
    /\ (pc \in {"tags_copy", "pre_copy"} /\ i < 3) =>
           InBuffer(lreader) /\ InBuffer(lwriter)
    /\ pc = "ignore_pre" =>
           /\ InBuffer(lreader) /\ InBuffer(lwriter)
           /\ mem[lreader] = SLASH => PeekInBuffer(lreader + 1)

----------------------------------------------------------------------------
(* C16.  The first buffer of every body filter invocation for a response   *)
(* with a ctx starts to be stripped in state_text, whatever state the      *)
(* invocation before it ended in.                                          *)

C16_InvocationStartsInText ==
    (ctx_ptr = "ctx" /\ in_first <= in_last /\ start_state[in_first] # -1) =>
        start_state[in_first] = state_text

\* the invocation before ended in state_tag_pre, this one has started its
\* first buffer
C16_Witness ==
    /\ in_first > 1
    /\ in_first <= in_last
    /\ end_state[in_first - 1] = state_tag_pre
    /\ start_state[in_first] = state_text

----------------------------------------------------------------------------
(* C17.  Within one body filter invocation strip_buffer is called for the  *)
(* buffers of the chain in list order, for one buffer at a time and once   *)
(* for each, and a buffer after the first starts in the state in which the *)
(* buffer before it ended.                                                 *)

Started(k) == start_state[k] # -1

C17_ChainInOrder ==
    /\ \A k \in 1..Len(bufs) :
        /\ strip_calls[k] <= 1
        /\ Started(k) <=> strip_calls[k] = 1
        /\ Started(k) => \A j \in 1..(k - 1) : Processed(j)
        /\ (Started(k) /\ ~Processed(k)) => chain_link = k
    /\ \A k \in in_first..(in_last - 1) :
        Started(k + 1) => start_state[k + 1] = end_state[k]
    /\ (ctx_ptr = "ctx" /\ pc = "idle" /\ next_body_calls = 1) =>
           \A k \in in_first..in_last : Processed(k)

\* the second buffer of an invocation starts in state_tag_pre
C17_Witness ==
    \E k \in in_first..(in_last - 1) :
        /\ end_state[k] = state_tag_pre
        /\ start_state[k + 1] = state_tag_pre

----------------------------------------------------------------------------
(* C18.  The state of a response's ctx is state_text or state_tag_pre in   *)
(* every reachable state: no assignment in the module gives it the value   *)
(* state_abort.                                                            *)

C18_NeverAborted ==
    /\ ctx_ptr = "ctx" => ctx_state \in {state_text, state_tag_pre}
    /\ \A k \in 1..Len(bufs) :
        /\ start_state[k] \in {-1, state_text, state_tag_pre}
        /\ end_state[k] \in {-1, state_text, state_tag_pre}

\* a tag was found in the buffer being stripped and the scanner has set
\* the state back to state_text
C18_Witness ==
    /\ ctx_ptr = "ctx"
    /\ pc = "for_strip"
    /\ tag_at # 0
    /\ ctx_state = state_text

----------------------------------------------------------------------------
(* C19.  As claimed: every body filter invocation that has entered its     *)
(* loop over the chain comes to the call of the next body filter and       *)
(* returns.                                                                *)

C19_InvocationCompletes ==
    (pc = "for_chain") ~> (pc = "idle" /\ next_body_calls = 1)

----------------------------------------------------------------------------
(* C20.  As claimed: a header filter invocation has called the next header *)
(* filter once when it returns, and not at all when the allocation failed; *)
(* a body filter invocation that has ended has called the next body filter *)
(* once, and not before strip_buffer has returned for every buffer of its  *)
(* chain; the two next-filter pointers hold what filter_init stored.       *)

FilterInstalled == ngx_http_top_header_filter = "ngx_http_no_newlines_header_filter"

\* a body filter invocation has ended: it has returned, or the process has
\* died in it
InvocationEnded == (pc = "idle" /\ in_first <= in_last) \/ pc = "fault"

C20_NextFiltersCalledOnce ==
    /\ header_rc = "pending" => next_header_calls = 0
    /\ header_rc = "next" => next_header_calls = 1
    /\ header_rc = "NGX_ERROR" => (pcalloc = "NULL" /\ next_header_calls = 0)
    /\ next_body_calls <= 1
    /\ (ctx_ptr = "ctx" /\ next_body_calls = 1) =>
           \A k \in in_first..in_last : Processed(k)
    /\ InvocationEnded => next_body_calls = 1
    /\ ngx_http_next_header_filter
           = (IF FilterInstalled THEN "host_header_filter" ELSE "NULL")
    /\ ngx_http_next_body_filter
           = (IF FilterInstalled THEN "host_body_filter" ELSE "NULL")

====
